---- MODULE Spec2Model ----
(***************************************************************************)
(* Model of the vegetable-recognition API gateway: the POST /api/predict   *)
(* pipeline (multer upload, predictHandler, the LLM recommendation         *)
(* adapter with its response parser and catalog, savePrediction) and the   *)
(* error middleware chain registered in index.js.                          *)
(*                                                                         *)
(* JavaScript strings that the code inspects character by character        *)
(* (toLowerCase, includes) are sequences of one-character strings.         *)
(***************************************************************************)
EXTENDS Integers, Sequences, FiniteSets, TLC

(***************************************************************************)
(* Strings                                                                 *)
(***************************************************************************)

\* String.prototype.toLowerCase, one character
LowerChar(c) ==
    CASE c = "A" -> "a" [] c = "E" -> "e" [] c = "J" -> "j" [] c = "M" -> "m"
      [] c = "N" -> "n" [] c = "P" -> "p" [] c = "R" -> "r" [] c = "S" -> "s"
      [] c = "T" -> "t" [] c = "W" -> "w" [] c = "X" -> "x"
      [] OTHER -> c

toLowerCase(s) == [i \in 1..Len(s) |-> LowerChar(s[i])]

\* String.prototype.includes
includes(s, m) ==
    \E i \in 1..(Len(s) - Len(m) + 1) : SubSeq(s, i, i + Len(m) - 1) = m

MarkerResep1    == <<"r","e","s","e","p"," ","1">>
MarkerNamaResep == <<"n","a","m","a"," ","r","e","s","e","p">>
MarkerXX        == <<"X","X">>

(***************************************************************************)
(* JSON values of the three fields the parser looks at.                    *)
(*   a recipe element: [t |-> "str" | "num", s |-> characters]             *)
(*   recipes:   [t |-> "absent" | "str" | "num" | "list", s, items]        *)
(*   calories:  [t |-> "absent" | "str" | "num", s]                        *)
(*   nutrition: [t |-> "absent" | "obj" | "str", fields, calories]         *)
(*   storageTips: [t |-> "absent" | "str" | "num", v]                      *)
(***************************************************************************)
Str(s) == [t |-> "str", s |-> s]
Num(s) == [t |-> "num", s |-> s]

RList(items) == [t |-> "list", s |-> <<>>, items |-> items]
RStr(s)      == [t |-> "str", s |-> s, items |-> <<>>]
RNum(s)      == [t |-> "num", s |-> s, items |-> <<>>]
RAbsent      == [t |-> "absent", s |-> <<>>, items |-> <<>>]

CalAbsent == [t |-> "absent", s |-> <<>>]

NObj(fields, cal) == [t |-> "obj", fields |-> fields, calories |-> cal]
NStr              == [t |-> "str", fields |-> {}, calories |-> CalAbsent]
NAbsent           == [t |-> "absent", fields |-> {}, calories |-> CalAbsent]

TStr(v)  == [t |-> "str", v |-> v]
TNum(v)  == [t |-> "num", v |-> v]
TAbsent  == [t |-> "absent", v |-> ""]

Structured == {"calories", "vitamins", "benefits"}

\* JavaScript truthiness of the three fields
TruthyRecipes(r) ==
    \/ r.t = "list"
    \/ r.t = "str" /\ r.s # <<>>
    \/ r.t = "num" /\ r.s # <<"0">>

TruthyNutrition(n) == n.t \in {"obj", "str"}

TruthyCalories(c) ==
    \/ c.t = "str" /\ c.s # <<>>
    \/ c.t = "num" /\ c.s # <<"0">>

TruthyTips(x) ==
    \/ x.t = "str" /\ x.v # ""
    \/ x.t = "num" /\ x.v # "0"

\* String(value) for the storageTips field
String(x) == x.v

(***************************************************************************)
(* Recommendations                                                         *)
(***************************************************************************)
Recommendation(recipes, nutrition, tips) ==
    [recipes |-> recipes, nutrition |-> nutrition, storageTips |-> tips]

getFallbackRecommendation ==
    Recommendation(
        << Str(<<"R","e","k","o","m","e","n","d","a","s","i"," ","t","i","d","a","k"," ",
                 "t","e","r","s","e","d","i","a"," ","s","a","a","t"," ","i","n","i">>) >>,
        NObj({"info"}, CalAbsent),
        "Simpan di tempat sejuk dan kering")

\* the catalog "defaults" of getDefaultRecommendation (two of its entries)
defaults ==
    [ Bean |->
        Recommendation(
            << Str(<<"T","u","m","i","s"," ","B","u","n","c","i","s"," ","B","a","w","a","n","g"," ","P","u","t","i","h">>),
               Str(<<"S","a","y","u","r"," ","A","s","e","m"," ","B","u","n","c","i","s">>),
               Str(<<"O","s","e","n","g"," ","B","u","n","c","i","s"," ","T","e","m","p","e">>) >>,
            NObj(Structured, Str(<<"3","1"," ","k","k","a","l","/","1","0","0","g">>)),
            "Simpan di kulkas dalam kantong plastik berlubang, tahan 5-7 hari"),
      Carrot |->
        Recommendation(
            << Str(<<"S","u","p"," ","W","o","r","t","e","l"," ","A","y","a","m">>),
               Str(<<"T","u","m","i","s"," ","W","o","r","t","e","l"," ","T","e","l","u","r">>),
               Str(<<"J","u","s"," ","W","o","r","t","e","l"," ","J","e","r","u","k">>) >>,
            NObj(Structured, Str(<<"4","1"," ","k","k","a","l","/","1","0","0","g">>)),
            "Simpan di kulkas tanpa daun, tahan 2-3 minggu") ]

getDefaultRecommendation(vegetableName) ==
    IF vegetableName \in DOMAIN defaults
    THEN defaults[vegetableName]
    ELSE getFallbackRecommendation

\* Outcome of a call that yields a recommendation: thrown, or the value
\* returned together with the place it came from
\*   via = "fallback" : getFallbackRecommendation called directly
\*   via = "default"  : getDefaultRecommendation called (catalog lookup)
\*   via = "parsed"   : object built from the generated payload
\*   log : the console.error lines written on the way
NoRec == Recommendation(<<>>, NAbsent, "")
Returned(val, via, log) ==
    [thrown |-> FALSE, val |-> val, via |-> via, log |-> log, error |-> ""]
Thrown(message) ==
    [thrown |-> TRUE, val |-> NoRec, via |-> "none", log |-> <<>>, error |-> message]
LogLine(at, message) == [at |-> at, message |-> message]

(***************************************************************************)
(* Generated text.  A text is a sequence of tokens: "w" is commentary      *)
(* without braces or fences, "{" and "}" are lone braces, "FENCE_JSON" and *)
(* "FENCE" are code-fence markers, and the name of a payload stands for the *)
(* serialisation of that JSON object (it starts with "{", ends with "}").  *)
(***************************************************************************)
SopWortel == Str(<<"S","o","p"," ","W","o","r","t","e","l">>)
Kkal35    == Str(<<"3","5"," ","k","k","a","l">>)
GoodNutrition == NObj(Structured, Kkal35)
GoodTips      == TStr("Simpan di kulkas")

Parsed(recipes, nutrition, tips) ==
    [recipes |-> recipes, nutrition |-> nutrition, storageTips |-> tips]

EmptyObject == Parsed(RAbsent, NAbsent, TAbsent)

Payloads ==
    [ valid           |-> Parsed(RList(<<SopWortel>>), GoodNutrition, GoodTips),
      emptyRecipes    |-> Parsed(RList(<<>>), NObj({}, CalAbsent), GoodTips),
      bothShapes      |-> Parsed(RList(<<SopWortel>>), NObj({"calories", "info"}, Kkal35), GoodTips),
      nutritionStr    |-> Parsed(RList(<<SopWortel>>), NStr, GoodTips),
      placeholderList |-> Parsed(RList(<<Str(<<"N","a","m","a"," ","R","e","s","e","p"," ","W","o","r","t","e","l">>)>>),
                                 GoodNutrition, GoodTips),
      placeholderCaps |-> Parsed(RList(<<SopWortel, Str(<<"R","E","S","E","P"," ","1">>)>>),
                                 GoodNutrition, GoodTips),
      placeholderBare |-> Parsed(RStr(<<"n","a","m","a"," ","r","e","s","e","p"," ","1">>),
                                 GoodNutrition, GoodTips),
      placeholderXX   |-> Parsed(RList(<<SopWortel>>),
                                 NObj(Structured, Str(<<"X","X"," ","k","k","a","l","/","1","0","0","g">>)), GoodTips),
      lowerXX         |-> Parsed(RList(<<SopWortel>>),
                                 NObj(Structured, Str(<<"x","x"," ","k","k","a","l">>)), GoodTips),
      bareValid       |-> Parsed(RStr(<<"S","o","p"," ","W","o","r","t","e","l">>), GoodNutrition, GoodTips),
      numElem         |-> Parsed(RList(<<Num(<<"5">>)>>), GoodNutrition, GoodTips),
      calNum          |-> Parsed(RList(<<SopWortel>>), NObj(Structured, Num(<<"3","5">>)), GoodTips),
      tipsNum         |-> Parsed(RList(<<SopWortel>>), GoodNutrition, TNum("5")),
      tipsEmpty       |-> Parsed(RList(<<SopWortel>>), GoodNutrition, TStr("")),
      noTips          |-> Parsed(RList(<<SopWortel>>), GoodNutrition, TAbsent) ]

PayloadNames == DOMAIN Payloads

\* a response text handed to the parser: undefined, or a token sequence
Undefined  == [defined |-> FALSE, toks |-> <<>>]
Text(toks) == [defined |-> TRUE, toks |-> toks]


\* the two response.replace(..., '') calls that drop the fence markers, then trim()
cleanResponse(toks) ==
    SelectSeq(SelectSeq(toks, LAMBDA tok : tok # "FENCE_JSON"),
              LAMBDA tok : tok # "FENCE")

HasOpenBrace(tok)  == tok = "{" \/ tok \in PayloadNames
HasCloseBrace(tok) == tok = "}" \/ tok \in PayloadNames

Min(S) == CHOOSE x \in S : \A y \in S : x <= y
Max(S) == CHOOSE x \in S : \A y \in S : x >= y

\* cleanResponse.match(/\{[\s\S]*\}/): from the first "{" to the last "}"
jsonMatch(clean) ==
    LET opens  == {i \in 1..Len(clean) : HasOpenBrace(clean[i])}
        closes == {i \in 1..Len(clean) : HasCloseBrace(clean[i])}
    IN  IF opens # {} /\ closes # {} /\ Max(closes) >= Min(opens)
        THEN [found |-> TRUE, span |-> SubSeq(clean, Min(opens), Max(closes))]
        ELSE [found |-> FALSE, span |-> <<>>]

\* JSON.parse of a matched span: the span is one serialised object, or "{}"
JSONparse(span) ==
    IF Len(span) = 1 /\ span[1] \in PayloadNames
    THEN [ok |-> TRUE, obj |-> Payloads[span[1]]]
    ELSE IF span = <<"{", "}">>
    THEN [ok |-> TRUE, obj |-> EmptyObject]
    ELSE [ok |-> FALSE, obj |-> EmptyObject]

\* r.toLowerCase().includes('resep 1') || r.toLowerCase().includes('nama resep')
IsTemplateRecipe(s) ==
    \/ includes(toLowerCase(s), MarkerResep1)
    \/ includes(toLowerCase(s), MarkerNamaResep)

\* parsed.recipes.some(...): "true", "false", or "throw" when an element that
\* is not a string is reached before any match (r.toLowerCase is not a function)
recipesSome(items) ==
    LET stops == {i \in 1..Len(items) :
                     items[i].t # "str" \/ IsTemplateRecipe(items[i].s)}
    IN  IF stops = {} THEN "false"
        ELSE IF items[Min(stops)].t # "str" THEN "throw"
        ELSE "true"

\* parsed.nutrition.calories && parsed.nutrition.calories.includes('XX')
caloriesXX(nutrition) ==
    IF nutrition.t # "obj" \/ ~TruthyCalories(nutrition.calories) THEN "false"
    ELSE IF nutrition.calories.t # "str" THEN "throw"
    ELSE IF includes(nutrition.calories.s, MarkerXX) THEN "true"
    ELSE "false"

isPlaceholder(parsed) ==
    LET inList == IF parsed.recipes.t = "list"
                  THEN recipesSome(parsed.recipes.items) ELSE "false"
    IN  IF inList # "false" THEN inList ELSE caloriesXX(parsed.nutrition)

\* Array.isArray(parsed.recipes) ? parsed.recipes : [parsed.recipes]
normalizeRecipes(recipes) ==
    IF recipes.t = "list" THEN recipes.items
    ELSE << [t |-> recipes.t, s |-> recipes.s] >>

\* the exception caught by parseRecommendation's try block ("" when none)
parseException(response) ==
    LET m == jsonMatch(cleanResponse(response.toks))
        j == JSONparse(m.span)
    IN  IF ~response.defined THEN "Cannot read properties of undefined (reading 'replace')"
        ELSE IF ~m.found THEN ""
        ELSE IF ~j.ok THEN "Unexpected token in JSON"
        ELSE IF /\ TruthyRecipes(j.obj.recipes)
                /\ TruthyNutrition(j.obj.nutrition)
                /\ TruthyTips(j.obj.storageTips)
                /\ isPlaceholder(j.obj) = "throw"
        THEN "is not a function"
        ELSE ""

\* a parser that keeps the recipes of an incomplete object and fills the
\* missing fields from the default entry
parseRecommendation_Partial(response, vegetableName) ==
    LET m == jsonMatch(cleanResponse(response.toks))
        parsed == JSONparse(m.span).obj
        caught == parseException(response)
        default == getDefaultRecommendation(vegetableName)
    IN  IF caught # ""
        THEN Returned(default, "default", <<LogLine("parseRecommendation", caught)>>)
        ELSE IF ~m.found
        THEN Returned(default, "default", <<>>)
        ELSE IF ~TruthyRecipes(parsed.recipes)
        THEN Returned(default, "default", <<>>)
        ELSE IF ~(TruthyNutrition(parsed.nutrition) /\ TruthyTips(parsed.storageTips))
        THEN Returned(Recommendation(normalizeRecipes(parsed.recipes),
                                     default.nutrition, default.storageTips),
                      "parsed", <<>>)
        ELSE IF isPlaceholder(parsed) = "true"
        THEN Returned(default, "default", <<>>)
        ELSE Returned(Recommendation(normalizeRecipes(parsed.recipes),
                                     parsed.nutrition,
                                     String(parsed.storageTips)), "parsed", <<>>)

parseRecommendation(response, vegetableName) ==
    LET m == jsonMatch(cleanResponse(response.toks))
        parsed == JSONparse(m.span).obj
        caught == parseException(response)
    IN  IF caught # ""
        THEN Returned(getDefaultRecommendation(vegetableName), "default",
                      <<LogLine("parseRecommendation", caught)>>)
        ELSE IF ~m.found
        THEN Returned(getDefaultRecommendation(vegetableName), "default", <<>>)
        ELSE IF ~(TruthyRecipes(parsed.recipes) /\ TruthyNutrition(parsed.nutrition)
                    /\ TruthyTips(parsed.storageTips))
        THEN Returned(getDefaultRecommendation(vegetableName), "default", <<>>)
        ELSE IF isPlaceholder(parsed) = "true"
        THEN Returned(getDefaultRecommendation(vegetableName), "default", <<>>)
        ELSE Returned(Recommendation(normalizeRecipes(parsed.recipes),
                                     parsed.nutrition,
                                     String(parsed.storageTips)), "parsed", <<>>)

(***************************************************************************)
(* Errors and the error middleware chain                                   *)
(***************************************************************************)
Err(name, code, message) == [name |-> name, code |-> code, message |-> message]

NoErr            == Err("", "", "")
MulterLimitError == Err("MulterError", "LIMIT_FILE_SIZE", "File too large")
FileFilterError  == Err("Error", "", "Unsupported image format. Allowed: JPEG, PNG, WebP")
AxiosRefused     == Err("AxiosError", "ECONNREFUSED", "connect ECONNREFUSED")
AxiosTimeout     == Err("AxiosError", "ECONNABORTED", "timeout of 30000ms exceeded")
AxiosBadResponse == Err("AxiosError", "ERR_BAD_RESPONSE", "Request failed with status code 500")
PgNotNull        == Err("error", "23502", "null value violates not-null constraint")
PgNoTable        == Err("error", "42P01", "relation predictions does not exist")
PgRefused        == Err("Error", "ECONNREFUSED", "connect ECONNREFUSED")
PgTimeout        == Err("Error", "", "Connection terminated due to connection timeout")

\* the errors a caller can hand to the error middleware: an Error with any
\* name, with or without a code, with any message
ErrNames == {"Error", "ValidationError", "MulterError", "AxiosError", "TypeError", "error"}
ErrCodes ==
    {"", "ECONNREFUSED", "ECONNABORTED", "ERR_BAD_RESPONSE", "LIMIT_FILE_SIZE",
     "23502", "23505", "42P01", "2201W", "123"}
ErrMessages ==
    {"", "boom", "Timeout", "Connection refused",
     "timeout of 30000ms exceeded",
     "Connection terminated due to connection timeout",
     "connect ECONNREFUSED",
     "relation predictions does not exist"}

\* err.message.includes('timeout'), for the messages of ErrMessages and above
messageIncludesTimeout(message) ==
    message \in {"timeout of 30000ms exceeded",
                 "Connection terminated due to connection timeout"}

\* err.code.startsWith('23'), for the codes of ErrCodes and above
codeStartsWith23(code) == code \in {"23502", "23505"}

\* what a middleware did with the error: answered, or called next(err)
Answer(by, status, error) ==
    [responded |-> TRUE, by |-> by, status |-> status, json |-> TRUE, error |-> error]
CallNext == [responded |-> FALSE, by |-> "", status |-> 0, json |-> FALSE, error |-> ""]

\* errorHandler answering a timeout like a refused connection
errorHandler_TimeoutAs502(err, production) ==
    IF err.name = "ValidationError" THEN Answer("errorHandler", 400, err.message)
    ELSE IF err.code \in {"ECONNREFUSED", "ECONNABORTED"} \/ messageIncludesTimeout(err.message)
    THEN Answer("errorHandler", 502, "Service unavailable")
    ELSE IF err.code # "" /\ codeStartsWith23(err.code)
    THEN Answer("errorHandler", 400, "Database constraint violation")
    ELSE IF err.code = "42P01" THEN Answer("errorHandler", 500, "Database table not found")
    ELSE Answer("errorHandler", 500,
                IF production THEN "Internal server error" ELSE err.message)

\* errorHandler with the database rules ahead of the timeout rule
errorHandler_DatabaseFirst(err, production) ==
    IF err.name = "ValidationError" THEN Answer("errorHandler", 400, err.message)
    ELSE IF err.code = "ECONNREFUSED" THEN Answer("errorHandler", 502, "Service unavailable")
    ELSE IF err.code # "" /\ codeStartsWith23(err.code)
    THEN Answer("errorHandler", 400, "Database constraint violation")
    ELSE IF err.code = "42P01" THEN Answer("errorHandler", 500, "Database table not found")
    ELSE IF err.code = "ECONNABORTED" \/ messageIncludesTimeout(err.message)
    THEN Answer("errorHandler", 504, "Request timeout")
    ELSE Answer("errorHandler", 500,
                IF production THEN "Internal server error" ELSE err.message)

\* errorHandler whose default case passes the error on with next(err)
errorHandler_DefaultNext(err, production) ==
    IF err.name = "ValidationError" THEN Answer("errorHandler", 400, err.message)
    ELSE IF err.code = "ECONNREFUSED" THEN Answer("errorHandler", 502, "Service unavailable")
    ELSE IF err.code = "ECONNABORTED" \/ messageIncludesTimeout(err.message)
    THEN Answer("errorHandler", 504, "Request timeout")
    ELSE IF err.code # "" /\ codeStartsWith23(err.code)
    THEN Answer("errorHandler", 400, "Database constraint violation")
    ELSE IF err.code = "42P01" THEN Answer("errorHandler", 500, "Database table not found")
    ELSE CallNext

errorHandler(err, production) ==
    IF err.name = "ValidationError" THEN Answer("errorHandler", 400, err.message)
    ELSE IF err.code = "ECONNREFUSED" THEN Answer("errorHandler", 502, "Service unavailable")
    ELSE IF err.code = "ECONNABORTED" \/ messageIncludesTimeout(err.message)
    THEN Answer("errorHandler", 504, "Request timeout")
    ELSE IF err.code # "" /\ codeStartsWith23(err.code)
    THEN Answer("errorHandler", 400, "Database constraint violation")
    ELSE IF err.code = "42P01" THEN Answer("errorHandler", 500, "Database table not found")
    ELSE Answer("errorHandler", 500,
                IF production THEN "Internal server error" ELSE err.message)

\* the anonymous middleware registered under "Handle multer errors"
multerErrorHandler(err) ==
    IF err.name = "MulterError"
    THEN IF err.code = "LIMIT_FILE_SIZE"
         THEN Answer("multerErrorHandler", 413, "File size exceeds 10MB limit")
         ELSE Answer("multerErrorHandler", 400, err.message)
    ELSE CallNext

\* app.use(errorHandler) comes before the multer error middleware
errorMiddleware == <<"errorHandler", "multerErrorHandler">>

runMiddleware(name, err, production) ==
    IF name = "errorHandler" THEN errorHandler(err, production)
    ELSE multerErrorHandler(err)

\* Express's final handler when every error middleware called next(err)
finalHandler ==
    [responded |-> TRUE, by |-> "finalhandler", status |-> 500, json |-> FALSE, error |-> ""]

RECURSIVE dispatchFrom(_, _, _)
dispatchFrom(i, err, production) ==
    IF i > Len(errorMiddleware) THEN finalHandler
    ELSE LET out == runMiddleware(errorMiddleware[i], err, production)
         IN  IF out.responded THEN out
             ELSE dispatchFrom(i + 1, err, production)

\* next(err): the registered error middleware run in registration order
next(err, production) == dispatchFrom(1, err, production)

(***************************************************************************)
(* Inputs: uploads and the replies of the three external collaborators     *)
(***************************************************************************)
fileSize == 10 * 1024 * 1024

allowedTypes == {"image/jpeg", "image/png", "image/webp"}

File(mimetype, size) == [present |-> TRUE, mimetype |-> mimetype, size |-> size]
NoFile == [present |-> FALSE, mimetype |-> "", size |-> 0]

Uploads ==
    { NoFile,
      File("image/jpeg", fileSize),
      File("image/png", fileSize + 1),
      File("image/webp", 2 * fileSize),
      File("image/gif", 1),
      File("application/pdf", fileSize + 1) }

\* mlResponse.data; a confidence c stands for the float c / 100000
Top(class, confidence) == [class |-> class, confidence |-> confidence]
Prediction(class, confidence, top3) ==
    [predicted_class |-> class, confidence |-> confidence, top_3 |-> top3]
NoPrediction == Prediction("", 0, <<>>)

Predictions ==
    { Prediction("Carrot", 92000,
                 <<Top("Carrot", 92000), Top("Radish", 5000), Top("Pumpkin", 1000)>>),
      Prediction("Zucchini", 61237,
                 <<Top("Zucchini", 61237), Top("Cucumber", 30004), Top("Brinjal", 4100)>>),
      Prediction("Unknown vegetable", 30000,
                 <<Top("Papaya", 30000), Top("Pumpkin", 28000), Top("Potato", 20000)>>),
      \* a body the handler takes as it comes: two alternatives, out of order
      Prediction("Bean", 48000, <<Top("Potato", 20000), Top("Bean", 48000)>>) }

MLReply(kind, err, data) == [kind |-> kind, err |-> err, data |-> data]
MLReplies ==
    {MLReply("error", e, NoPrediction) : e \in {AxiosRefused, AxiosTimeout, AxiosBadResponse}}
      \cup {MLReply("ok", NoErr, p) : p \in Predictions}

\* reply of a generation backend: a transport error, a response whose
\* envelope lacks the text (no choices / no response field), or a text
GenReply(kind, err, toks) == [kind |-> kind, err |-> err, toks |-> toks]
NoReply == GenReply("none", NoErr, <<>>)

Texts ==
    { <<p>> : p \in PayloadNames } \cup
    { <<>>, <<"w">>, <<"{", "}">>, <<"{", "w">>, <<"}", "w", "{">>,
      <<"w", "valid", "w">>,
      <<"FENCE_JSON", "valid", "FENCE">>,
      <<"FENCE", "tipsNum", "FENCE", "w">>,
      <<"valid", "w", "{", "w", "}">>,
      <<"w", "{", "w", "}", "w", "valid">>,
      <<"valid", "w", "bothShapes">>,
      <<"w", "placeholderList", "w">>,
      <<"FENCE_JSON", "placeholderBare", "FENCE">> }

GenReplies ==
    {GenReply("error", e, <<>>) : e \in {AxiosRefused, AxiosTimeout, AxiosBadResponse}}
      \cup {GenReply("missing", NoErr, <<>>)}
      \cup {GenReply("text", NoErr, t) : t \in Texts}

DbErrors == {PgNotNull, PgNoTable, PgRefused, PgTimeout}

(***************************************************************************)
(* State                                                                   *)
(***************************************************************************)
MaxReq == 1
Reqs == 1..MaxReq

VARIABLES
    env,      \* process.env as read by predict.js, llm.js, db.js, errorHandler.js
    req,      \* per request: position in the handler, locals, calls made, response
    db,       \* rows of the predictions table, in insertion order
    nextId,   \* source of fresh UUIDs and timestamps
    hist,     \* the latest call of a /api/history endpoint and its response
    errCall,  \* an error handed to the error middleware and the response to it
    auth,     \* the browser: localStorage, AuthProvider's state, the route shown
    ui        \* the History page: its list state, the deletes in flight, the server

\* the state outside the POST /api/predict pipeline
aside == <<hist, errCall, auth, ui>>

vars == <<env, req, db, nextId, hist, errCall, auth, ui>>

Envs ==
    [ SKIP_LLM     : BOOLEAN,             \* process.env.SKIP_LLM === 'true'
      OLLAMA_URL   : BOOLEAN,             \* process.env.OLLAMA_URL is set
      LLM_PROVIDER : {"groq", "ollama"},  \* process.env.LLM_PROVIDER || 'groq'
      GROQ_API_KEY : BOOLEAN,             \* process.env.GROQ_API_KEY is set
      DB_ENABLED   : BOOLEAN,             \* DATABASE_URL || DB_HOST is set
      production   : BOOLEAN ]            \* NODE_ENV === 'production'

NoBody ==
    [kind |-> "none", error |-> "", id |-> 0, prediction |-> NoPrediction,
     recommendation |-> NoRec, created_at |-> 0]
ErrorBody(kind, error) == [NoBody EXCEPT !.kind = kind, !.error = error]
SuccessBody(id, prediction, recommendation, created_at) ==
    [kind |-> "success", error |-> "", id |-> id, prediction |-> prediction,
     recommendation |-> recommendation, created_at |-> created_at]

InitReq ==
    [ pc |-> "idle",
      file |-> NoFile,                \* req.file / the uploaded part
      mlErr |-> NoErr,                \* error the ML service call rejected with
      prediction |-> NoPrediction,    \* mlResponse.data
      provider |-> "none",            \* backend the generation request went to
      reply |-> NoReply,              \* what that backend answered
      recommendation |-> NoRec,
      via |-> "none",                 \* where recommendation came from
      log |-> <<>>,                   \* console.error lines
      err |-> NoErr,                  \* error handed to next()
      mlCalls |-> 0, genCalls |-> 0, saveCalls |-> 0,
      responses |-> 0, status |-> 0, body |-> NoBody ]

\* a call of GET /api/history or DELETE /api/history/:id and its response
\*   limit, offset : req.query.limit, req.query.offset as received
\*   id            : req.params.id
\*   queries       : calls of pool.query made for it
\*   list          : the array sent by getHistory
\*   deleted       : the id in the body sent by deleteHistory
NoParam == [groups |-> <<>>, hex |-> FALSE, n |-> 0]
NoHist ==
    [op |-> "none", limit |-> "undefined", offset |-> "undefined", id |-> NoParam,
     queries |-> 0, status |-> 0, kind |-> "none", error |-> "",
     list |-> <<>>, deleted |-> NoParam]

\* an error given to next(err) and what the error middleware sent
NoRes == [responded |-> FALSE, by |-> "", status |-> 0, json |-> FALSE, error |-> ""]
NoErrCall == [err |-> NoErr, res |-> NoRes, logged |-> <<>>]

NoUser == [name |-> <<>>, email |-> <<>>]

NoForm == [mode |-> "", name |-> <<>>, email |-> <<>>, password |-> <<>>,
           confirmPassword |-> <<>>]

\* the browser before the application is opened: empty localStorage, nothing
\* mounted.  entry is the URL of the latest page load and touched tells whether
\* the user has clicked or submitted anything since that load.
NoAuth ==
    [users |-> <<>>, saved |-> NoUser, user |-> NoUser, restored |-> FALSE,
     path |-> "", entry |-> "", shown |-> "", phase |-> "closed",
     op |-> "", form |-> NoForm, error |-> "", touched |-> FALSE]

\* the History page before it is mounted.  loaded is the list of the latest
\* successful load, deleted the ids whose delete has been answered with success.
NoPage ==
    [mounted |-> FALSE, history |-> <<>>, loading |-> TRUE, error |-> "",
     getting |-> FALSE, loaded |-> <<>>, reloaded |-> FALSE, server |-> <<>>,
     calls |-> <<>>, deleted |-> {}, op |-> ""]

Init ==
    /\ env \in Envs
    /\ req = [r \in Reqs |-> InitReq]
    /\ db = <<>>
    /\ nextId = 1
    /\ hist = NoHist
    /\ auth = NoAuth
    /\ ui = NoPage
    /\ errCall = NoErrCall

(***************************************************************************)
(* llm.js                                                                  *)
(***************************************************************************)
getGroqRecommendation(vegetableName, reply) ==
    IF reply.kind = "error" THEN Thrown(reply.err.message)
    ELSE IF reply.kind = "missing"
    THEN Thrown("Cannot read properties of undefined (reading '0')")
    ELSE parseRecommendation(Text(reply.toks), vegetableName)

getOllamaRecommendation(vegetableName, reply) ==
    IF reply.kind = "error" THEN Thrown(reply.err.message)
    ELSE parseRecommendation(IF reply.kind = "missing" THEN Undefined
                             ELSE Text(reply.toks), vegetableName)

\* getLLMRecommendation without the 'Unknown vegetable' short-circuit
getLLMRecommendation_NoSentinel(vegetableName) ==
    IF env.LLM_PROVIDER = "groq" /\ env.GROQ_API_KEY THEN "groq"
    ELSE "ollama"

\* getLLMRecommendation choosing Groq whenever GROQ_API_KEY is set
getLLMRecommendation_KeyOnly(vegetableName) ==
    IF vegetableName = "Unknown vegetable" THEN "none"
    ELSE IF env.GROQ_API_KEY THEN "groq"
    ELSE "ollama"

\* getLLMRecommendation up to its await: the backend it calls, if any
getLLMRecommendation(vegetableName) ==
    IF vegetableName = "Unknown vegetable" THEN "none"
    ELSE IF env.LLM_PROVIDER = "groq" /\ env.GROQ_API_KEY THEN "groq"
    ELSE "ollama"

\* getLLMRecommendation without its try/catch around the backend call
getLLMRecommendationResult_NoCatch(vegetableName, provider, reply) ==
    IF provider = "none"
    THEN Returned(getFallbackRecommendation, "fallback", <<>>)
    ELSE IF provider = "groq"
    THEN getGroqRecommendation(vegetableName, reply)
    ELSE getOllamaRecommendation(vegetableName, reply)

\* getLLMRecommendation whose catch returns the generic fallback
getLLMRecommendationResult_CatchFallback(vegetableName, provider, reply) ==
    IF provider = "none"
    THEN Returned(getFallbackRecommendation, "fallback", <<>>)
    ELSE LET out == IF provider = "groq"
                    THEN getGroqRecommendation(vegetableName, reply)
                    ELSE getOllamaRecommendation(vegetableName, reply)
         IN  IF out.thrown
             THEN Returned(getFallbackRecommendation, "default",
                           <<LogLine("getLLMRecommendation", out.error)>>)
             ELSE out

\* getLLMRecommendation from the await on: the value it resolves to
getLLMRecommendationResult(vegetableName, provider, reply) ==
    IF provider = "none"
    THEN Returned(getFallbackRecommendation, "fallback", <<>>)
    ELSE LET out == IF provider = "groq"
                    THEN getGroqRecommendation(vegetableName, reply)
                    ELSE getOllamaRecommendation(vegetableName, reply)
         IN  IF out.thrown
             THEN Returned(getDefaultRecommendation(vegetableName), "default",
                           <<LogLine("getLLMRecommendation", out.error)>>)
             ELSE out

(***************************************************************************)
(* index.js, predict.js, db.js                                             *)
(***************************************************************************)
\* res.status(status).json(body): the handler is finished; the backend's
\* reply, a local of the llm.js call, is gone with it
Respond(rq, status, body) ==
    [rq EXCEPT !.pc = "done", !.status = status, !.body = body,
               !.responses = @ + 1, !.reply = NoReply]

\* next(error): the error middleware chain answers the request
Fail(rq, err) ==
    LET out == next(err, env.production)
        logged == IF out.by = "errorHandler"
                  THEN Append(rq.log, LogLine("errorHandler", err.message))
                  ELSE rq.log
    IN  Respond([rq EXCEPT !.err = err, !.log = logged], out.status,
                ErrorBody(IF out.json THEN "error" ELSE "html", out.error))

\* upload.single('file'): fileFilter, then the fileSize limit
Upload(r) ==
    /\ req[r].pc = "idle"
    /\ \E f \in Uploads :
         LET rq == [req[r] EXCEPT !.file = f]
         IN  req' = [req EXCEPT ![r] =
                IF f.present /\ f.mimetype \notin allowedTypes
                THEN Fail(rq, FileFilterError)
                ELSE IF f.present /\ f.size > fileSize
                THEN Fail(rq, MulterLimitError)
                ELSE [rq EXCEPT !.pc = "handler"]]
    /\ UNCHANGED <<env, db, nextId, aside>>

\* predictHandler up to the await of the ML service call
predictHandler(r) ==
    /\ req[r].pc = "handler"
    /\ req' = [req EXCEPT ![r] =
          IF ~req[r].file.present
          THEN Respond(req[r], 400, ErrorBody("error", "No image file provided"))
          ELSE [req[r] EXCEPT !.pc = "classifying", !.mlCalls = @ + 1]]
    /\ UNCHANGED <<env, db, nextId, aside>>

\* const skipLLM = process.env.SKIP_LLM === 'true' || !process.env.OLLAMA_URL
skipLLM == env.SKIP_LLM \/ ~env.OLLAMA_URL

\* predictHandler calling savePrediction without await and answering at once
callSave_NoAwait(rq, result) ==
    LET rec == IF result.thrown THEN getFallbackRecommendation ELSE result.val
    IN  Respond([rq EXCEPT !.recommendation = rec,
                           !.via = IF result.thrown THEN "catch" ELSE result.via,
                           !.saveCalls = @ + 1],
                200, SuccessBody(0, rq.prediction, rec, 0))

\* predictHandler once recommendation is assigned: savePrediction is called
callSave(rq, result) ==
    [rq EXCEPT !.recommendation = IF result.thrown THEN getFallbackRecommendation
                                  ELSE result.val,
               !.via = IF result.thrown THEN "catch" ELSE result.via,
               !.log = IF result.thrown
                       THEN Append(@, LogLine("predictHandler", result.error))
                       ELSE @ \o result.log,
               !.pc = "persisting",
               !.saveCalls = @ + 1]

\* the catch around the ML service call, connection refused, carried on
\* past its return with a stand-in recommendation
mlUnavailable_FallThrough(rq) ==
    callSave(rq, Returned(getFallbackRecommendation, "skip", <<>>))

\* the ECONNREFUSED branch answering 502 without return: the error is thrown
\* on to the outer catch and next(error) answers again
mlUnavailable_NoReturn(rq) ==
    Fail(Respond(rq, 502, ErrorBody("error", "ML service unavailable")), rq.mlErr)

\* the catch around the ML service call when error.code === 'ECONNREFUSED'
mlUnavailable(rq) ==
    Respond(rq, 502, ErrorBody("error", "ML service unavailable"))

\* predictHandler from the ML service's answer to its next await
mlReturn(r) ==
    /\ req[r].pc = "classifying"
    /\ \E m \in MLReplies :
         LET label == m.data.predicted_class
             rq == [req[r] EXCEPT !.prediction = m.data, !.mlErr = m.err]
             call == getLLMRecommendation(label)
         IN  req' = [req EXCEPT ![r] =
                IF m.kind = "error"
                THEN IF m.err.code = "ECONNREFUSED"
                     THEN mlUnavailable(rq)
                     ELSE Fail(rq, m.err)
                ELSE IF skipLLM
                THEN callSave(rq, Returned(getFallbackRecommendation, "skip", <<>>))
                ELSE IF call = "none"
                THEN callSave(rq, getLLMRecommendationResult(label, "none", NoReply))
                ELSE [rq EXCEPT !.pc = "generating", !.provider = call,
                                !.genCalls = @ + 1]]
    /\ UNCHANGED <<env, db, nextId, aside>>

\* the generation backend answers; a failed call is repeated once against
\* the other backend
llmReturn_Retry(r) ==
    /\ req[r].pc = "generating"
    /\ \E g \in GenReplies :
         req' = [req EXCEPT ![r] =
            IF g.kind = "error" /\ req[r].genCalls < 2
            THEN [req[r] EXCEPT !.provider = IF @ = "groq" THEN "ollama" ELSE "groq",
                                !.genCalls = @ + 1]
            ELSE callSave([req[r] EXCEPT !.reply = g],
                          getLLMRecommendationResult(req[r].prediction.predicted_class,
                                                     req[r].provider, g))]
    /\ UNCHANGED <<env, db, nextId, aside>>

\* the call to Groq made without a timeout, against an API that never
\* answers: only the Ollama call ever settles
llmReturn_NoDeadline(r) ==
    /\ req[r].pc = "generating"
    /\ req[r].provider # "groq"
    /\ \E g \in GenReplies :
         req' = [req EXCEPT ![r] =
            callSave([req[r] EXCEPT !.reply = g],
                     getLLMRecommendationResult(req[r].prediction.predicted_class,
                                                req[r].provider, g))]
    /\ UNCHANGED <<env, db, nextId, aside>>

\* the generation backend answers: getLLMRecommendation resumes, then
\* predictHandler goes on to savePrediction
llmReturn(r) ==
    /\ req[r].pc = "generating"
    /\ \E g \in GenReplies :
         req' = [req EXCEPT ![r] =
            callSave([req[r] EXCEPT !.reply = g],
                     getLLMRecommendationResult(req[r].prediction.predicted_class,
                                                req[r].provider, g))]
    /\ UNCHANGED <<env, db, nextId, aside>>

\* a value written to the column confidence DECIMAL(5,4): rounded to four
\* decimal places
DECIMAL_5_4(c) == ((c + 5) \div 10) * 10

\* the row INSERT ... RETURNING * yields; top_3_predictions and
\* llm_recommendation are JSONB and keep the value serialised into them
Row(id, prediction, recommendation, created_at) ==
    [id |-> id, predicted_class |-> prediction.predicted_class,
     confidence |-> DECIMAL_5_4(prediction.confidence),
     top_3_predictions |-> prediction.top_3,
     llm_recommendation |-> recommendation, created_at |-> created_at]

\* predictHandler with the save wrapped in its own try/catch (best effort)
savePrediction_BestEffort(r) ==
    /\ req[r].pc = "persisting"
    /\ LET rq == req[r]
           row == Row(nextId, rq.prediction, rq.recommendation, nextId)
           ok == Respond(rq, 200, SuccessBody(row.id, rq.prediction,
                                              rq.recommendation, row.created_at))
       IN  \/ /\ req' = [req EXCEPT ![r] = ok]
              /\ nextId' = nextId + 1
              /\ db' = IF env.DB_ENABLED THEN Append(db, row) ELSE db
           \/ /\ env.DB_ENABLED
              /\ \E e \in DbErrors :
                    req' = [req EXCEPT ![r] = Respond([rq EXCEPT !.err = e], 200,
                               SuccessBody(0, rq.prediction, rq.recommendation, 0))]
              /\ UNCHANGED <<db, nextId>>
    /\ UNCHANGED <<env, aside>>

\* predictHandler answering with an id of its own making (as the one in
\* imagePath) in place of savedRecord.id
savePrediction_OwnId(r) ==
    /\ req[r].pc = "persisting"
    /\ LET rq == req[r]
           row == Row(nextId, rq.prediction, rq.recommendation, nextId)
           ok == Respond(rq, 200, SuccessBody(nextId + 1, rq.prediction,
                                              rq.recommendation, row.created_at))
       IN  \/ /\ ~env.DB_ENABLED
              /\ req' = [req EXCEPT ![r] = ok]
              /\ nextId' = nextId + 2
              /\ db' = db
           \/ /\ env.DB_ENABLED
              /\ req' = [req EXCEPT ![r] = ok]
              /\ nextId' = nextId + 2
              /\ db' = Append(db, row)
           \/ /\ env.DB_ENABLED
              /\ \E e \in DbErrors : req' = [req EXCEPT ![r] = Fail(rq, e)]
              /\ UNCHANGED <<db, nextId>>
    /\ UNCHANGED <<env, aside>>

\* savePrediction settles and predictHandler sends the response
savePrediction(r) ==
    /\ req[r].pc = "persisting"
    /\ LET rq == req[r]
           row == Row(nextId, rq.prediction, rq.recommendation, nextId)
           ok == Respond(rq, 200, SuccessBody(row.id, rq.prediction,
                                              rq.recommendation, row.created_at))
       IN  \/ /\ ~env.DB_ENABLED
              /\ req' = [req EXCEPT ![r] = ok]
              /\ nextId' = nextId + 1
              /\ db' = db
           \/ /\ env.DB_ENABLED
              /\ req' = [req EXCEPT ![r] = ok]
              /\ nextId' = nextId + 1
              /\ db' = Append(db, row)
           \/ /\ env.DB_ENABLED
              /\ \E e \in DbErrors : req' = [req EXCEPT ![r] = Fail(rq, e)]
              /\ UNCHANGED <<db, nextId>>
    /\ UNCHANGED <<env, aside>>

(***************************************************************************)
(* history.js and the two queries of db.js behind it                       *)
(***************************************************************************)
\* req.query.limit and req.query.offset: undefined, or the text given
Limits  == {"undefined", "0", "1", "2", "-1", "abc"}
Offsets == {"undefined", "1"}

\* parseInt(text): a number, or NaN
NaN == [nan |-> TRUE, n |-> 0]
Number(n) == [nan |-> FALSE, n |-> n]
parseInt(text) ==
    CASE text = "0" -> Number(0) [] text = "1" -> Number(1) [] text = "2" -> Number(2)
      [] text = "-1" -> Number(-1)
      [] OTHER -> NaN

\* x || d for a number x: NaN and 0 are falsy
OrDefault(x, d) == IF x.nan \/ x.n = 0 THEN d ELSE x.n

\* req.params.id as text: the lengths of its dash-separated groups, whether
\* every character is a hexadecimal digit, whether letters are upper case,
\* and (for a text of UUID shape) the UUID it denotes
Param(groups, hex, upper, n) == [groups |-> groups, hex |-> hex, upper |-> upper, n |-> n]
UuidGroups == <<8, 4, 4, 4, 12>>

\* uuidRegex.test(id), /^[0-9a-f]{8}-[0-9a-f]{4}-[0-9a-f]{4}-[0-9a-f]{4}-[0-9a-f]{12}$/i
uuidRegexTest(id) == id.groups = UuidGroups /\ id.hex

\* the id of a row as pg returns it
Uuid(n) == Param(UuidGroups, TRUE, FALSE, n)

\* ids a client may send: malformed texts, and UUIDs of rows that are or
\* were stored, or never were (nextId)
IdParams ==
    { Param(<<8, 4, 4, 4, 11>>, TRUE, FALSE, 0),
      Param(<<32>>, TRUE, FALSE, 0),
      Param(UuidGroups, FALSE, FALSE, 0),
      Param(<<1>>, TRUE, FALSE, 0) }
      \cup {Param(UuidGroups, TRUE, u, n) : u \in BOOLEAN, n \in 1..nextId}

PgNegativeLimit == Err("error", "2201W", "LIMIT must not be negative")
QueryErrors == {PgNoTable, PgRefused, PgTimeout}

\* the orders in which ORDER BY created_at DESC may return the rows: every
\* arrangement of the row positions in which created_at never increases
Orderings(rows) ==
    {o \in [1..Len(rows) -> 1..Len(rows)] :
        /\ \A i, j \in 1..Len(rows) : i # j => o[i] # o[j]
        /\ \A i \in 1..(Len(rows) - 1) :
              rows[o[i]].created_at >= rows[o[i + 1]].created_at}

\* LIMIT limit OFFSET offset of the rows taken in the order o
Page(rows, o, limit, offset) ==
    [k \in 1..Max({0, Min({limit, Len(rows) - offset})}) |-> rows[o[offset + k]]]

\* parseFloat(p.confidence): the number the NUMERIC text denotes
parseFloat(c) == c

\* predictions.map(p => ({...})) of getHistory
HistoryItem(p) ==
    [id |-> p.id, predictedClass |-> p.predicted_class,
     confidence |-> parseFloat(p.confidence),
     top3Predictions |-> p.top_3_predictions,
     llmRecommendation |-> p.llm_recommendation,
     createdAt |-> p.created_at]

\* next(error) of a history handler
HistFail(call, err) ==
    LET out == next(err, env.production)
    IN  [call EXCEPT !.status = out.status,
                     !.kind = IF out.json THEN "error" ELSE "html",
                     !.error = out.error]

\* GET /api/history
getHistory ==
    /\ \E l \in Limits, o \in Offsets :
         LET limit  == OrDefault(parseInt(l), 50)
             offset == OrDefault(parseInt(o), 0)
             call   == [NoHist EXCEPT !.op = "getHistory", !.limit = l, !.offset = o]
             asked  == [call EXCEPT !.queries = 1]
         IN  IF ~env.DB_ENABLED
             THEN hist' = [call EXCEPT !.status = 200, !.kind = "list"]
             ELSE \/ /\ limit < 0
                     /\ hist' = HistFail(asked, PgNegativeLimit)
                  \/ /\ limit >= 0
                     /\ \E ord \in Orderings(db) :
                           LET page == Page(db, ord, limit, offset)
                           IN  hist' = [asked EXCEPT
                                   !.status = 200, !.kind = "list",
                                   !.list = [k \in 1..Len(page) |-> HistoryItem(page[k])]]
                  \/ \E e \in QueryErrors : hist' = HistFail(asked, e)
    /\ UNCHANGED <<env, req, db, nextId, errCall, auth, ui>>

\* deleteHistory when no pool exists: deletePrediction resolves to { id },
\* which is truthy
deletePredictionNoPool(call, id) ==
    [call EXCEPT !.status = 200, !.kind = "deleted", !.deleted = id]

\* DELETE /api/history/:id
deleteHistory ==
    /\ \E id \in IdParams :
         LET call  == [NoHist EXCEPT !.op = "deleteHistory", !.id = id]
             asked == [call EXCEPT !.queries = 1]
             hit   == {i \in 1..Len(db) : db[i].id = id.n}
             keep(row) == row.id # id.n
         IN  IF ~uuidRegexTest(id)
             THEN /\ hist' = [call EXCEPT !.status = 400, !.kind = "error",
                                         !.error = "Invalid ID format"]
                  /\ db' = db
             ELSE IF ~env.DB_ENABLED
             THEN /\ hist' = deletePredictionNoPool(call, id)
                  /\ db' = db
             ELSE \/ /\ hit = {}
                     /\ hist' = [asked EXCEPT !.status = 404, !.kind = "error",
                                              !.error = "Prediction not found"]
                     /\ db' = db
                  \/ /\ hit # {}
                     /\ hist' = [asked EXCEPT !.status = 200, !.kind = "deleted",
                                              !.deleted = Uuid(id.n)]
                     /\ db' = SelectSeq(db, keep)
                  \/ /\ \E e \in QueryErrors : hist' = HistFail(asked, e)
                     /\ db' = db
    /\ UNCHANGED <<env, req, nextId, errCall, auth, ui>>

\* rows stored by earlier requests, as the table may hold them at start-up
StoredRow1 == Row(1, Prediction("Carrot", 92000,
                       <<Top("Carrot", 92000), Top("Radish", 5000), Top("Pumpkin", 1000)>>),
                  defaults["Carrot"], 1)
StoredRow2 == Row(2, Prediction("Unknown vegetable", 30000,
                       <<Top("Papaya", 30000), Top("Pumpkin", 28000), Top("Potato", 20000)>>),
                  getFallbackRecommendation, 2)
StoredRow2Tie == [StoredRow2 EXCEPT !.created_at = 1]
StoredRow3 == Row(3, Prediction("Zucchini", 61237,
                       <<Top("Zucchini", 61237), Top("Cucumber", 30004), Top("Brinjal", 4100)>>),
                  getFallbackRecommendation, 3)

StoredBefore ==
    { <<>>, <<StoredRow1>>, <<StoredRow1, StoredRow2>>, <<StoredRow1, StoredRow2Tie>>,
      <<StoredRow1, StoredRow2, StoredRow3>> }

HistInit ==
    /\ env \in {e \in Envs : /\ e.SKIP_LLM /\ e.OLLAMA_URL /\ e.GROQ_API_KEY
                             /\ e.LLM_PROVIDER = "groq" /\ ~e.production}
    /\ req = [r \in Reqs |-> InitReq]
    /\ db \in IF env.DB_ENABLED THEN StoredBefore ELSE {<<>>}
    /\ nextId = Len(db) + 1
    /\ hist = NoHist
    /\ auth = NoAuth
    /\ ui = NoPage
    /\ errCall = NoErrCall

HistNext ==
    \/ \E r \in Reqs :
          \/ Upload(r)
          \/ predictHandler(r)
          \/ mlReturn(r)
          \/ savePrediction(r)
    \/ getHistory
    \/ deleteHistory

HistSpec == HistInit /\ [][HistNext]_vars

(***************************************************************************)
(* The error middleware on its own: any error handed to next(err)          *)
(***************************************************************************)
Errors == {Err(n, c, m) : n \in ErrNames, c \in ErrCodes, m \in ErrMessages}

ErrInit ==
    /\ env \in {e \in Envs : /\ e.SKIP_LLM /\ e.OLLAMA_URL /\ e.GROQ_API_KEY
                             /\ e.DB_ENABLED /\ e.LLM_PROVIDER = "groq"}
    /\ req = [r \in Reqs |-> InitReq]
    /\ db = <<>>
    /\ nextId = 1
    /\ hist = NoHist
    /\ auth = NoAuth
    /\ ui = NoPage
    /\ errCall \in {[NoErrCall EXCEPT !.err = e] : e \in Errors}

\* next(err): the error middleware chain answers
handleError ==
    /\ ~errCall.res.responded
    /\ LET out == next(errCall.err, env.production)
       IN  errCall' = [errCall EXCEPT
                          !.res = out,
                          !.logged = IF out.by = "errorHandler"
                                     THEN <<LogLine("errorHandler", errCall.err.message)>>
                                     ELSE <<>>]
    /\ UNCHANGED <<env, req, db, nextId, hist, auth, ui>>

ErrNext == handleError

ErrSpec == ErrInit /\ [][ErrNext]_vars

(***************************************************************************)
(* The browser client: contexts/AuthContext.tsx, pages/Login.tsx, App.tsx. *)
(* Texts typed into the form are sequences of characters, so that          *)
(* toLowerCase, trim and includes('@') are computed.  A stored user keeps  *)
(* the fields the checks read (name, email, password); id and avatar are   *)
(* derived from the clock and the name and are read by no check.           *)
(***************************************************************************)
Emails ==
    { <<"a", "n", "a", "@", "x">>, <<"A", "N", "A", "@", "x">>,
      <<"e", "s", "a", "@", "x">>, <<"a", "n", "a", ".", "x">>,
      <<" ", "a", "n", "a", "@", "x", " ">> }

Passwords == {<<>>, <<"s", "e", "c", "r", "t">>, <<"s", "e", "c", "r", "e", "t">>}

Paths == {"/", "/login", "/detect", "/history"}

Forms ==
    [mode : {"login", "register"}, name : {<<"A", "n", "a">>, <<" ">>},
     email : Emails, password : Passwords,
     confirmPassword : {<<"s", "e", "c", "r", "e", "t">>, <<"s", "e", "c", "r", "t">>}]

\* String.prototype.trim
trim(s) ==
    LET kept == {i \in 1..Len(s) : s[i] # " "}
    IN  IF kept = {} THEN <<>>
        ELSE SubSeq(s, CHOOSE i \in kept : \A j \in kept : i <= j,
                       CHOOSE i \in kept : \A j \in kept : j <= i)

\* a return value { success: false, error }; { success: true } has error ""
Result(success, error) == [success |-> success, error |-> error]

\* users.find(u => u.email === email): the comparison without toLowerCase
emailTaken_CaseSensitive(users, email) ==
    \E i \in 1..Len(users) : users[i].email = email

\* users.find(u => u.email.toLowerCase() === email.toLowerCase())
emailTaken(users, email) ==
    \E i \in 1..Len(users) : toLowerCase(users[i].email) = toLowerCase(email)

userWithoutPassword(u) == [name |-> u.name, email |-> u.email]

\* AuthContext.register: the browser state it leaves, with its return value
\* in result
register(a, name, email, password) ==
    IF emailTaken(a.users, email)
    THEN [state |-> a, result |-> Result(FALSE, "Email sudah terdaftar")]
    ELSE IF Len(password) < 6
    THEN [state |-> a, result |-> Result(FALSE, "Password minimal 6 karakter")]
    ELSE LET newUser == [name |-> name, email |-> toLowerCase(email),
                         password |-> password]
         IN  [state |-> [a EXCEPT !.users = Append(@, newUser),
                                  !.user = userWithoutPassword(newUser),
                                  !.saved = userWithoutPassword(newUser)],
              result |-> Result(TRUE, "")]

\* AuthContext.login
login(a, email, password) ==
    IF ~emailTaken(a.users, email)
    THEN [state |-> a, result |-> Result(FALSE, "Email tidak ditemukan")]
    ELSE LET foundUser == a.users[CHOOSE i \in 1..Len(a.users) :
                 /\ toLowerCase(a.users[i].email) = toLowerCase(email)
                 /\ \A j \in 1..(i - 1) :
                        toLowerCase(a.users[j].email) # toLowerCase(email)]
         IN  IF foundUser.password # password
             THEN [state |-> a, result |-> Result(FALSE, "Password salah")]
             ELSE [state |-> [a EXCEPT !.user = userWithoutPassword(foundUser),
                                       !.saved = userWithoutPassword(foundUser)],
                   result |-> Result(TRUE, "")]

\* isAuthenticated: !!user
isAuthenticated(user) == user # NoUser

\* a route guard that renders its children whoever asks
ProtectedRoute_Open(user, children) == children

\* App.tsx ProtectedRoute: what it returns
ProtectedRoute(user, children) ==
    IF ~isAuthenticated(user) THEN "Navigate" ELSE children

\* App.tsx Routes: the element rendered for a location and an AuthProvider state
Routes(path, user) ==
    CASE path = "/"        -> "Welcome"
      [] path = "/login"   -> "Login"
      [] path = "/detect"  -> ProtectedRoute(user, "Home")
      [] path = "/history" -> ProtectedRoute(user, "History")

\* the form's checks that skip the '@' test
validate_NoAt(f) ==
    IF trim(f.email) = <<>> THEN "Email tidak valid"
    ELSE IF f.password = <<>> THEN "Password harus diisi"
    ELSE IF f.mode # "register" THEN ""
    ELSE IF trim(f.name) = <<>> THEN "Nama harus diisi"
    ELSE IF Len(f.password) < 6 THEN "Password minimal 6 karakter"
    ELSE IF f.password # f.confirmPassword THEN "Konfirmasi password tidak cocok"
    ELSE ""

\* Login.handleSubmit, the checks before register or login is called: the
\* error set, "" when there is none
validate(f) ==
    IF trim(f.email) = <<>> \/ ~includes(f.email, <<"@">>) THEN "Email tidak valid"
    ELSE IF f.password = <<>> THEN "Password harus diisi"
    ELSE IF f.mode # "register" THEN ""
    ELSE IF trim(f.name) = <<>> THEN "Nama harus diisi"
    ELSE IF Len(f.password) < 6 THEN "Password minimal 6 karakter"
    ELSE IF f.password # f.confirmPassword THEN "Konfirmasi password tidak cocok"
    ELSE ""

AuthStep(a) == /\ auth' = a
               /\ UNCHANGED <<env, req, db, nextId, hist, errCall, ui>>

\* the application is opened or reloaded at a URL: AuthProvider's state starts
\* at null and the first render is committed with it; localStorage is kept
mount(p) ==
    /\ p \in Paths
    /\ AuthStep([auth EXCEPT !.user = NoUser, !.restored = FALSE, !.path = p,
                             !.entry = p, !.shown = Routes(p, NoUser),
                             !.phase = "effects", !.op = "mount", !.form = NoForm,
                             !.error = "", !.touched = FALSE])

\* the effects of the committed render, children before parents: Navigate
\* replaces the location, then AuthProvider's mount effect reads the saved user
useEffect ==
    /\ auth.phase = "effects"
    /\ LET navigated == IF auth.shown = "Navigate"
                        THEN [auth EXCEPT !.path = "/login"] ELSE auth
           restoredA == IF ~auth.restored /\ auth.saved # NoUser
                        THEN [navigated EXCEPT !.user = auth.saved] ELSE navigated
       IN  AuthStep([restoredA EXCEPT
               !.restored = TRUE, !.op = "useEffect",
               !.phase = IF restoredA.path # auth.path \/ restoredA.user # auth.user
                         THEN "dirty" ELSE "settled"])

\* React renders again after a state update or a navigation
render ==
    /\ auth.phase = "dirty"
    /\ LET element == Routes(auth.path, auth.user)
       IN  AuthStep([auth EXCEPT !.shown = element, !.op = "render",
                                 !.phase = IF element = "Navigate" THEN "effects"
                                           ELSE "settled"])

\* a Link of the navigation bar or of the Welcome page is followed
Link(p) ==
    /\ auth.phase = "settled"
    /\ \/ auth.shown \in {"Home", "History"} /\ p \in {"/", "/detect", "/history"}
       \/ auth.shown = "Welcome" /\ p = "/login"
       \/ auth.shown = "Welcome" /\ isAuthenticated(auth.user)
                                 /\ p \in {"/detect", "/history"}
    /\ AuthStep([auth EXCEPT !.path = p, !.phase = "dirty", !.op = "Link",
                             !.touched = TRUE])

\* Login.handleSubmit
handleSubmit ==
    /\ auth.phase = "settled"
    /\ auth.shown = "Login"
    /\ \E f \in Forms :
        LET a0 == [auth EXCEPT !.form = f, !.op = "handleSubmit", !.error = "",
                               !.touched = TRUE]
            out == IF f.mode = "register"
                   THEN register(a0, trim(f.name), trim(f.email), f.password)
                   ELSE login(a0, trim(f.email), f.password)
        IN  AuthStep(IF validate(f) # "" THEN [a0 EXCEPT !.error = validate(f)]
                     ELSE IF ~out.result.success
                     THEN [out.state EXCEPT !.error = out.result.error]
                     ELSE [out.state EXCEPT !.path = "/detect", !.phase = "dirty"])

\* AuthContext.logout, from the Keluar button of the navigation bar
logout ==
    /\ auth.phase = "settled"
    /\ auth.shown \in {"Home", "History"}
    /\ isAuthenticated(auth.user)
    /\ AuthStep([auth EXCEPT !.user = NoUser, !.saved = NoUser,
                             !.phase = "dirty", !.op = "logout", !.touched = TRUE])

AuthInit ==
    /\ env \in {e \in Envs : /\ e.SKIP_LLM /\ e.OLLAMA_URL /\ e.GROQ_API_KEY
                             /\ ~e.production /\ e.DB_ENABLED
                             /\ e.LLM_PROVIDER = "groq"}
    /\ req = [r \in Reqs |-> InitReq]
    /\ db = <<>>
    /\ nextId = 1
    /\ hist = NoHist
    /\ errCall = NoErrCall
    /\ auth = NoAuth
    /\ ui = NoPage

AuthNext ==
    \/ \E p \in Paths : mount(p)
    \/ useEffect
    \/ render
    \/ \E p \in Paths : Link(p)
    \/ handleSubmit
    \/ logout

AuthSpec == AuthInit /\ [][AuthNext]_vars

(***************************************************************************)
(* The History page: pages/History.tsx and services/api.ts.  A record is   *)
(* its id; the server is the list GET /api/history returns.  A delete in   *)
(* flight keeps the history array its handler closed over when the button  *)
(* was clicked.                                                            *)
(***************************************************************************)
MaxDeletes == 3

\* history.filter(h => h.id !== id)
filter(history, id) == SelectSeq(history, LAMBDA h : h # id)

PageStep(u) == /\ ui' = u
               /\ UNCHANGED <<env, req, db, nextId, hist, errCall, auth>>

\* the component mounts: its mount effect calls loadHistory
History ==
    /\ ~ui.mounted
    /\ PageStep([ui EXCEPT !.mounted = TRUE, !.loading = TRUE, !.getting = TRUE,
                           !.op = "History"])

\* the Coba Lagi button of the error view
loadHistory ==
    /\ ui.mounted /\ ~ui.loading /\ ui.error # ""
    /\ PageStep([ui EXCEPT !.loading = TRUE, !.getting = TRUE, !.reloaded = TRUE,
                           !.op = "loadHistory"])

\* loadHistory after await getHistory(): the data, or the catch branch
getHistoryReturn ==
    /\ ui.getting
    /\ \/ PageStep([ui EXCEPT !.history = ui.server, !.loaded = ui.server,
                              !.error = "", !.loading = FALSE, !.getting = FALSE,
                              !.op = "getHistoryReturn"])
       \/ PageStep([ui EXCEPT !.error = "Gagal memuat history", !.loading = FALSE,
                              !.getting = FALSE, !.op = "getHistoryReturn"])

\* handleDelete up to the await: the click, the confirm dialog, the request
handleDelete(id) ==
    /\ ui.mounted /\ ~ui.loading /\ ui.error = ""
    /\ \E k \in 1..Len(ui.history) : ui.history[k] = id
    /\ Len(ui.calls) < MaxDeletes
    /\ \/ PageStep([ui EXCEPT !.op = "cancel"])
       \/ PageStep([ui EXCEPT
              !.calls = Append(@, [id |-> id, history |-> ui.history, state |-> "sent",
                                   overlap |-> {ui.calls[k].id : k \in
                                       {j \in 1..Len(ui.calls) :
                                           ui.calls[j].state \in {"sent", "ok", "failed"}}}]),
              !.op = "handleDelete"])

\* api.ts deleteHistory: axios.delete is served by the gateway and the row is
\* removed, or the request fails (no such row, or no answer)
axiosDelete(k) ==
    /\ k \in 1..Len(ui.calls)
    /\ ui.calls[k].state = "sent"
    /\ \/ /\ \E i \in 1..Len(ui.server) : ui.server[i] = ui.calls[k].id
          /\ PageStep([ui EXCEPT !.server = filter(@, ui.calls[k].id),
                                 !.calls[k].state = "ok", !.op = "axiosDelete"])
       \/ PageStep([ui EXCEPT !.calls[k].state = "failed", !.op = "axiosDelete"])

\* handleDelete after the await, in whatever order the answers arrive:
\* setHistory(history.filter(h => h.id !== id)), where history is the array
\* of the render whose button was clicked
handleDeleteReturn(k) ==
    /\ k \in 1..Len(ui.calls)
    /\ \/ /\ ui.calls[k].state = "ok"
          /\ PageStep([ui EXCEPT !.history = filter(ui.calls[k].history, ui.calls[k].id),
                                 !.deleted = @ \cup {ui.calls[k].id},
                                 !.calls[k].state = "deleted",
                                 !.op = "handleDeleteReturn"])
       \/ /\ ui.calls[k].state = "failed"
          /\ PageStep([ui EXCEPT !.error = "Gagal menghapus",
                                 !.calls[k].state = "refused",
                                 !.op = "handleDeleteReturn"])

PageInit ==
    /\ env \in {e \in Envs : /\ e.SKIP_LLM /\ e.OLLAMA_URL /\ e.GROQ_API_KEY
                             /\ ~e.production /\ e.DB_ENABLED
                             /\ e.LLM_PROVIDER = "groq"}
    /\ req = [r \in Reqs |-> InitReq]
    /\ db = <<>>
    /\ nextId = 1
    /\ hist = NoHist
    /\ errCall = NoErrCall
    /\ auth = NoAuth
    /\ ui \in {[NoPage EXCEPT !.server = rows] : rows \in {<<"a", "b", "c">>, <<"a", "b">>}}

PageNext ==
    \/ History
    \/ loadHistory
    \/ getHistoryReturn
    \/ \E id \in {"a", "b", "c"} : handleDelete(id)
    \/ \E k \in 1..MaxDeletes : axiosDelete(k)
    \/ \E k \in 1..MaxDeletes : handleDeleteReturn(k)

PageSpec == PageInit /\ [][PageNext]_vars

Next ==
    \E r \in Reqs :
        \/ Upload(r)
        \/ predictHandler(r)
        \/ mlReturn(r)
        \/ llmReturn(r)
        \/ savePrediction(r)

Spec == Init /\ [][Next]_vars

\* A received request is run to its end: Express calls predictHandler once
\* multer is through, axios settles the ML service call and the generation
\* call within their timeouts (30000 ms, LLM_TIMEOUT), and the database
\* answers the INSERT (pool.query itself sets no timeout).  Nothing obliges
\* a client to send a request.
Fairness ==
    \A r \in Reqs :
        /\ WF_vars(predictHandler(r))
        /\ WF_vars(mlReturn(r))
        /\ WF_vars(llmReturn(r))
        /\ WF_vars(savePrediction(r))

\* two configurations that between them take every path of a request: the
\* recommendation step without a database, and a database without that step
LiveInit ==
    /\ Init
    /\ env.OLLAMA_URL /\ env.GROQ_API_KEY /\ env.LLM_PROVIDER = "groq"
    /\ ~env.production
    /\ env.SKIP_LLM = env.DB_ENABLED

LiveSpec == LiveInit /\ [][Next]_vars /\ Fairness

(***************************************************************************)
(* Properties                                                              *)
(***************************************************************************)
Label(r) == req[r].prediction.predicted_class
Done(r) == req[r].pc = "done"
Classified(r) == req[r].prediction # NoPrediction

\* the Catalog entry for the label, or the degraded fallback without one
CatalogOrFallback(label) ==
    IF label \in {"Bean", "Carrot"} THEN defaults[label]
    ELSE getFallbackRecommendation

\* the data-model invariant of a Recommendation
HasStructuredShape(nutrition) == nutrition.fields \cap Structured # {}
HasInfoShape(nutrition) == "info" \in nutrition.fields
WellFormed(rec) ==
    /\ Len(rec.recipes) > 0
    /\ rec.storageTips # ""
    /\ rec.nutrition.t = "obj"
    /\ HasStructuredShape(rec.nutrition) # HasInfoShape(rec.nutrition)

TransportMessages ==
    {AxiosRefused.message, AxiosTimeout.message, AxiosBadResponse.message}

\* the generation call of request r failed in transport (as logged)
GenFailed(r) ==
    \E i \in 1..Len(req[r].log) :
        /\ req[r].log[i].at = "getLLMRecommendation"
        /\ req[r].log[i].message \in TransportMessages

\* the row stored for the response of request r
StoredFor(r) == {i \in 1..Len(db) : db[i].id = req[r].body.id}

\* C1: getLLMRecommendation never raises to its caller: whatever the label
\* and whatever the generation backend answered, predictHandler's catch
\* around the call is never entered.
C1_NeverRaises ==
    \A r \in Reqs : req[r].via # "catch"

C1_Witness ==
    \E r \in Reqs :
        /\ req[r].pc = "persisting"
        /\ req[r].provider = "groq"
        /\ req[r].reply.kind = "missing"
        /\ req[r].via = "default"

\* C2 (as claimed): every recommendation handed to the save has a non-empty
\* recipes list, a non-empty storageTips string and exactly one of the two
\* nutrition shapes.
C2_Original ==
    \A r \in Reqs :
        req[r].pc = "persisting" => WellFormed(req[r].recommendation)

\* C3 (as claimed): once the save was called, the request ends with the
\* success status and the computed classification and recommendation,
\* whether or not savePrediction rejected.
C3_Original ==
    \A r \in Reqs :
        (Done(r) /\ req[r].saveCalls > 0) =>
            /\ req[r].status = 200
            /\ req[r].body.kind = "success"
            /\ req[r].body.prediction = req[r].prediction
            /\ req[r].body.recommendation = req[r].recommendation

\* C3 (amended): a rejected save fails the request: the rejection goes to
\* the error middleware, which logs it and answers with an error status and
\* a JSON error body in place of the computed classification and
\* recommendation.
C3_SaveFailureFailsRequest ==
    \A r \in Reqs :
        (Done(r) /\ req[r].saveCalls > 0 /\ req[r].err # NoErr) =>
            /\ req[r].err \in DbErrors
            /\ req[r].status \in {400, 500, 502, 504}
            /\ req[r].body.kind = "error"
            /\ req[r].body.error # ""
            /\ req[r].body.recommendation = NoRec
            /\ req[r].body.prediction = NoPrediction
            /\ \E i \in 1..Len(req[r].log) :
                  req[r].log[i] = LogLine("errorHandler", req[r].err.message)

C3_Witness ==
    \E r \in Reqs :
        /\ Done(r)
        /\ req[r].saveCalls = 1
        /\ req[r].err = PgNoTable
        /\ req[r].recommendation = defaults["Carrot"]
        /\ req[r].status = 500

\* C4 (as claimed): every upload larger than 10MB is answered with 413 and
\* no classification, generation or persistence call is made for it.
C4_Original ==
    \A r \in Reqs :
        (Done(r) /\ req[r].file.present /\ req[r].file.size > fileSize) =>
            /\ req[r].status = 413
            /\ req[r].mlCalls = 0
            /\ req[r].genCalls = 0
            /\ req[r].saveCalls = 0

\* C5 (as claimed): an upload whose content type is not JPEG, PNG or WebP
\* is answered with 400 and a JSON error body, without a classification call.
C5_Original ==
    \A r \in Reqs :
        (Done(r) /\ req[r].file.present /\ req[r].file.mimetype \notin allowedTypes) =>
            /\ req[r].status = 400
            /\ req[r].body.kind = "error"
            /\ req[r].mlCalls = 0

\* C6 (as claimed): after a successful classification the recommendation
\* lookup is skipped if and only if the skip flag is set.
C6_Original ==
    \A r \in Reqs :
        Classified(r) => ((req[r].via = "skip") <=> env.SKIP_LLM)

\* C7: for the label 'Unknown vegetable' no generation request is issued and
\* no catalog lookup is done; the recommendation computed, returned and
\* stored is the degraded fallback: nutrition.info present, no calories or
\* vitamins, a non-empty recipes list and a non-empty storageTips string.
C7_UnknownGetsFallback ==
    \A r \in Reqs :
        (Classified(r) /\ Label(r) = "Unknown vegetable") =>
            /\ req[r].genCalls = 0
            /\ req[r].provider = "none"
            /\ req[r].via \in {"skip", "fallback"}
            /\ req[r].recommendation = getFallbackRecommendation
            /\ "info" \in req[r].recommendation.nutrition.fields
            /\ req[r].recommendation.nutrition.fields \cap {"calories", "vitamins"} = {}
            /\ Len(req[r].recommendation.recipes) > 0
            /\ req[r].recommendation.storageTips # ""
            /\ (Done(r) /\ req[r].status = 200) =>
                  /\ req[r].body.recommendation = getFallbackRecommendation
                  /\ env.DB_ENABLED =>
                        /\ StoredFor(r) # {}
                        /\ \A i \in StoredFor(r) :
                              db[i].llm_recommendation = getFallbackRecommendation

C7_Witness ==
    \E r \in Reqs :
        /\ Label(r) = "Unknown vegetable"
        /\ ~skipLLM
        /\ req[r].via = "fallback"
        /\ env.DB_ENABLED
        /\ Done(r)
        /\ req[r].status = 200

\* C8 (as claimed): when the generation call for a label other than
\* 'Unknown vegetable' fails in transport, the request completes with the
\* success status and the Catalog entry (or the degraded fallback).
C8_Original ==
    \A r \in Reqs :
        (Done(r) /\ GenFailed(r)) =>
            /\ req[r].status = 200
            /\ req[r].body.recommendation = CatalogOrFallback(Label(r))

\* C8 (amended): when the generation call fails in transport, the handler
\* goes on to the save with the Catalog entry for the label (the degraded
\* fallback without one); unless the save itself rejects, the request
\* completes with the success status and that recommendation is the one
\* returned and stored.  An error response can only come from the save.
C8_GenFailureFallsBack ==
    \A r \in Reqs :
        GenFailed(r) =>
            /\ Label(r) # "Unknown vegetable"
            /\ req[r].pc \in {"persisting", "done"}
            /\ req[r].via = "default"
            /\ req[r].recommendation = CatalogOrFallback(Label(r))
            /\ Done(r) =>
                  IF req[r].err = NoErr
                  THEN /\ req[r].status = 200
                       /\ req[r].body.recommendation = CatalogOrFallback(Label(r))
                       /\ env.DB_ENABLED =>
                             /\ StoredFor(r) # {}
                             /\ \A i \in StoredFor(r) :
                                   db[i].llm_recommendation = CatalogOrFallback(Label(r))
                  ELSE req[r].err \in DbErrors /\ req[r].saveCalls = 1

C8_Witness ==
    \E r \in Reqs :
        /\ Done(r)
        /\ req[r].status = 200
        /\ Label(r) = "Carrot"
        /\ env.DB_ENABLED
        /\ \E i \in 1..Len(req[r].log) :
              req[r].log[i] = LogLine("getLLMRecommendation", AxiosTimeout.message)
        /\ req[r].body.recommendation = defaults["Carrot"]

\* a recipe string that carries a template marker, compared without case
MarkedRecipe(e) == e.t = "str" /\ IsTemplateRecipe(e.s)
HasMarkedRecipe(p) ==
    \/ p.recipes.t = "list" /\ \E i \in 1..Len(p.recipes.items) : MarkedRecipe(p.recipes.items[i])
    \/ p.recipes.t = "str" /\ IsTemplateRecipe(p.recipes.s)

\* C9 (as claimed): a generated payload in which a recipe string contains
\* "nama resep" or "resep 1" is rejected, whether recipes is a list or a
\* bare string: the result is the Catalog entry or the degraded fallback.
C9_Original ==
    \A r \in Reqs :
        ( /\ req[r].pc = "persisting"
          /\ req[r].reply.kind = "text"
          /\ \E i \in 1..Len(req[r].reply.toks) :
                /\ req[r].reply.toks[i] \in PayloadNames
                /\ HasMarkedRecipe(Payloads[req[r].reply.toks[i]]) )
        => req[r].recommendation = CatalogOrFallback(Label(r))

\* a complete, valid recommendation object
ValidObject(p) ==
    /\ p.recipes.t = "list"
    /\ Len(p.recipes.items) > 0
    /\ \A i \in 1..Len(p.recipes.items) :
          p.recipes.items[i].t = "str" /\ ~IsTemplateRecipe(p.recipes.items[i].s)
    /\ p.nutrition.t = "obj"
    /\ HasStructuredShape(p.nutrition) # HasInfoShape(p.nutrition)
    /\ p.nutrition.calories.t = "str" => ~includes(p.nutrition.calories.s, MarkerXX)
    /\ p.nutrition.calories.t # "num"
    /\ p.storageTips.t = "str" /\ p.storageTips.v # ""

\* the first balanced {...} span of the fence-stripped text when that span is
\* a serialised object ("" otherwise)
FirstObject(toks) ==
    LET clean == cleanResponse(toks)
        opens == {i \in 1..Len(clean) : HasOpenBrace(clean[i])}
    IN  IF opens # {} /\ clean[Min(opens)] \in PayloadNames
        THEN clean[Min(opens)] ELSE ""

\* C10 (as claimed): when the first balanced span of the text is a complete,
\* valid recommendation object, the parser returns the recommendation that
\* object encodes, whatever commentary precedes or follows it.
C10_Original ==
    \A r \in Reqs :
        ( /\ req[r].pc = "persisting"
          /\ req[r].reply.kind = "text"
          /\ FirstObject(req[r].reply.toks) # ""
          /\ ValidObject(Payloads[FirstObject(req[r].reply.toks)]) )
        => LET p == Payloads[FirstObject(req[r].reply.toks)]
           IN  /\ req[r].via = "parsed"
               /\ req[r].recommendation =
                     Recommendation(p.recipes.items, p.nutrition, p.storageTips.v)

\* C11: when the ML service refuses the connection the request ends with
\* status 502 and a JSON error body, exactly one response; and whatever the
\* ML service call failed with, no generation call is made, savePrediction
\* is not called (so no row is stored for it) and no success body is sent.
C11_ClassificationFailureIsFatal ==
    \A r \in Reqs :
        req[r].mlErr # NoErr =>
            /\ Done(r)
            /\ req[r].genCalls = 0
            /\ req[r].saveCalls = 0
            /\ req[r].body.kind = "error"
            /\ req[r].body.error # ""
            /\ req[r].responses = 1
            /\ req[r].mlErr.code = "ECONNREFUSED" => req[r].status = 502

C11_Witness ==
    \E r \in Reqs :
        /\ req[r].mlErr = AxiosRefused
        /\ Done(r)
        /\ req[r].status = 502
        /\ req[r].body = ErrorBody("error", "ML service unavailable")

\* C12 (as claimed): when the ML service call exceeds its 30 s timeout the
\* request is answered with status 502.
C12_Original ==
    \A r \in Reqs :
        (Done(r) /\ req[r].mlErr.code = "ECONNABORTED") => req[r].status = 502

\* C12 (amended): when the ML service call exceeds its 30 s timeout the
\* error goes to the error middleware and the request is answered with
\* status 504 and the JSON body {error: 'Request timeout'}; no generation
\* call and no save are made.
C12_ClassificationTimeoutIs504 ==
    \A r \in Reqs :
        req[r].mlErr.code = "ECONNABORTED" =>
            /\ Done(r)
            /\ req[r].err = req[r].mlErr
            /\ req[r].status = 504
            /\ req[r].body = ErrorBody("error", "Request timeout")
            /\ req[r].genCalls = 0
            /\ req[r].saveCalls = 0

C12_Witness ==
    \E r \in Reqs :
        /\ req[r].mlErr = AxiosTimeout
        /\ Done(r)
        /\ req[r].status = 504
        /\ req[r].mlCalls = 1

\* C13: whatever error reaches the error middleware (any name, any message,
\* with or without a code), the response has a status in 400..599 and a
\* JSON body with an error field; it is errorHandler that sends it.
C13_ErrorResponseFormat ==
    errCall.res.responded =>
        /\ errCall.res.status \in 400..599
        /\ errCall.res.json
        /\ errCall.res.by = "errorHandler"

C13_Witness ==
    /\ errCall.res.responded
    /\ errCall.err = Err("TypeError", "", "boom")
    /\ env.production
    /\ errCall.res.status = 500
    /\ errCall.res.error = "Internal server error"

\* the status the rules give when taken in the order validation, refused,
\* timeout, database, default
FirstMatchStatus(e) ==
    IF e.name = "ValidationError" THEN 400
    ELSE IF e.code = "ECONNREFUSED" THEN 502
    ELSE IF e.code = "ECONNABORTED" \/ messageIncludesTimeout(e.message) THEN 504
    ELSE IF e.code \in {"23502", "23505"} THEN 400
    ELSE 500

\* C14: errorHandler answers an ECONNREFUSED error with 502 and
\* {error: 'Service unavailable'} and an ECONNABORTED error with 504 and
\* {error: 'Request timeout'} (when no earlier rule matches), and the
\* status is decided by the first matching rule in the order validation,
\* refused, timeout, database, default.
C14_FirstMatchingRule ==
    errCall.res.responded =>
        LET e == errCall.err
        IN  /\ errCall.res.status = FirstMatchStatus(e)
            /\ (e.name # "ValidationError" /\ e.code = "ECONNREFUSED") =>
                  /\ errCall.res.status = 502
                  /\ errCall.res.error = "Service unavailable"
            /\ (e.name # "ValidationError" /\ e.code = "ECONNABORTED") =>
                  /\ errCall.res.status = 504
                  /\ errCall.res.error = "Request timeout"

C14_Witness ==
    /\ errCall.res.responded
    /\ errCall.err = Err("error", "23505", "timeout of 30000ms exceeded")
    /\ errCall.res.status = 504
    /\ errCall.res.error = "Request timeout"

\* C15: within one request the ML service is called at most once and a
\* generation backend at most once; the one generation call goes to the
\* selected backend, and after it failed the handler is past it (saving or
\* done) without a second call to either backend.
C15_NoRetry ==
    \A r \in Reqs :
        /\ req[r].mlCalls <= 1
        /\ req[r].genCalls <= 1
        /\ (req[r].genCalls = 1) <=> (req[r].provider # "none")
        /\ req[r].provider # "none" =>
              req[r].provider = getLLMRecommendation(Label(r))
        /\ GenFailed(r) =>
              /\ req[r].genCalls = 1
              /\ req[r].pc \in {"persisting", "done"}

C15_Witness ==
    \E r \in Reqs :
        /\ req[r].pc = "persisting"
        /\ req[r].provider = "ollama"
        /\ req[r].reply = GenReply("error", AxiosRefused, <<>>)
        /\ GenFailed(r)
        /\ req[r].genCalls = 1
        /\ req[r].mlCalls = 1

\* a step of a /api/history handler (the predict pipeline is left alone)
HistoryStep(op) == hist'.op = op /\ req' = req

\* C16 (as claimed): without a configured database the store behaves as an
\* always-empty store: nothing is ever stored, GET /api/history sends the
\* empty list for every limit and offset, and DELETE /api/history/:id with a
\* UUID-shaped id is answered 404.
C16_Original ==
    ~env.DB_ENABLED =>
        /\ db = <<>>
        /\ hist.op = "getHistory" => (hist.status = 200 /\ hist.list = <<>>)
        /\ (hist.op = "deleteHistory" /\ uuidRegexTest(hist.id)) => hist.status = 404

\* the rows left when the row with the UUID n is removed
Without(rows, n) ==
    LET keep(row) == row.id # n IN SelectSeq(rows, keep)

\* the three cases of DELETE /api/history/:id, for the step just taken
DeleteAsClaimed ==
    LET id == hist'.id
    IN  IF ~uuidRegexTest(id)
        THEN /\ hist'.status = 400
             /\ hist'.queries = 0
             /\ db' = db
        ELSE IF \A i \in 1..Len(db) : db[i].id # id.n
        THEN /\ hist'.status = 404
             /\ hist'.kind = "error"
             /\ db' = db
        ELSE /\ hist'.status = 200
             /\ hist'.deleted = Uuid(id.n)
             /\ db' = Without(db, id.n)

\* C17 (as claimed): DELETE /api/history/:id with an id that is not of UUID
\* shape is answered 400 without a storage call and leaves the store as it
\* was; with a UUID that no stored row has, it is answered 404 with a JSON
\* error body and leaves the store as it was; with the UUID of a stored row
\* it removes exactly that row and answers {success: true, deleted: {id}}.
\* (Responses of the error middleware to a failed query are left aside.)
C17_Original ==
    [][(HistoryStep("deleteHistory") /\ hist'.status \in {200, 400, 404})
          => DeleteAsClaimed]_vars

\* C17, with a database configured: the three cases hold as claimed.
C17_WithDatabase ==
    [][(env.DB_ENABLED /\ HistoryStep("deleteHistory")
          /\ hist'.status \in {200, 400, 404}) => DeleteAsClaimed]_vars

\* the number a query parameter supplies; the default when it is absent
Supplied(text, default) ==
    IF text = "undefined" THEN default ELSE parseInt(text).n

\* the list sent is a page of the rows by descending created_at, cut with
\* the limit and offset the caller supplied
ListAsClaimed ==
    \E ord \in Orderings(db) :
        LET page == Page(db, ord, Supplied(hist'.limit, 50), Supplied(hist'.offset, 0))
        IN  hist'.list = [k \in 1..Len(page) |-> HistoryItem(page[k])]

\* C18 (as claimed): GET /api/history sends the stored rows by descending
\* created_at, skipping offset rows and sending at most limit rows, where
\* limit is the number the caller supplied (50 only when absent) and offset
\* the number supplied (0 when absent).
C18_Original ==
    [][( /\ HistoryStep("getHistory")
         /\ env.DB_ENABLED
         /\ hist'.status = 200
         /\ hist'.limit \in {"undefined", "0", "1", "2"} ) => ListAsClaimed]_vars

\* C18, for a limit that is absent or a positive number: the page is as
\* claimed.
C18_PositiveLimit ==
    [][( /\ HistoryStep("getHistory")
         /\ env.DB_ENABLED
         /\ hist'.status = 200
         /\ hist'.limit \in {"undefined", "1", "2"} ) => ListAsClaimed]_vars

Responded(r) == Done(r) /\ req[r].status = 200

Moves ==
    { <<"idle", "handler">>, <<"idle", "done">>,
      <<"handler", "classifying">>, <<"handler", "done">>,
      <<"classifying", "generating">>, <<"classifying", "persisting">>,
      <<"classifying", "done">>,
      <<"generating", "persisting">>,
      <<"persisting", "done">> }

InOrder ==
    \A r \in Reqs :
        /\ req'[r].pc # req[r].pc => <<req[r].pc, req'[r].pc>> \in Moves
        /\ (req'[r].pc # req[r].pc /\ Responded(r)') => req[r].pc = "persisting"
        /\ Done(r) => req'[r] = req[r]

\* C20: every received request eventually reaches a response (success or
\* error), given that each external call settles; and a request passes its
\* positions only in the order received, classifying, generating (or
\* skipped), persisting, responded, with the success response sent only
\* from persisting and nothing happening after the response.
C20_TerminatesInOrder ==
    /\ \A r \in Reqs : (req[r].pc # "idle") ~> Done(r)
    /\ [][InOrder]_vars

C20_Witness ==
    \E r \in Reqs :
        /\ Responded(r)
        /\ req[r].mlCalls = 1
        /\ req[r].genCalls = 1
        /\ req[r].saveCalls = 1
        /\ req[r].via = "parsed"

\* getLLMRecommendation was called for a label other than the sentinel
AdapterCalled(r) ==
    Classified(r) /\ ~skipLLM /\ Label(r) # "Unknown vegetable"

\* C21 (as claimed): for a label other than 'Unknown vegetable' the one
\* generation request goes to Groq whenever GROQ_API_KEY is configured and
\* to Ollama otherwise.
C21_Original ==
    \A r \in Reqs :
        AdapterCalled(r) =>
            /\ req[r].genCalls = 1
            /\ req[r].provider = IF env.GROQ_API_KEY THEN "groq" ELSE "ollama"

\* C21 (amended): for a label other than 'Unknown vegetable' the adapter
\* issues exactly one generation request, to Groq when LLM_PROVIDER is
\* 'groq' (the default) and GROQ_API_KEY is configured, to Ollama
\* otherwise; the text either backend returns goes through
\* parseRecommendation, so the recommendation depends on the text and the
\* label only, not on the backend.
C21_OneBackendSameParser ==
    \A r \in Reqs :
        AdapterCalled(r) =>
            /\ req[r].genCalls = 1
            /\ req[r].provider =
                  IF env.LLM_PROVIDER = "groq" /\ env.GROQ_API_KEY THEN "groq" ELSE "ollama"
            /\ (req[r].pc = "persisting" /\ req[r].reply.kind = "text") =>
                  LET out == parseRecommendation(Text(req[r].reply.toks), Label(r))
                  IN  /\ req[r].recommendation = out.val
                      /\ req[r].via = out.via

C21_Witness ==
    \E r \in Reqs :
        /\ AdapterCalled(r)
        /\ env.GROQ_API_KEY
        /\ env.LLM_PROVIDER = "ollama"
        /\ req[r].provider = "ollama"
        /\ req[r].pc = "persisting"
        /\ req[r].reply = GenReply("text", NoErr, <<"valid">>)
        /\ req[r].via = "parsed"

\* a Classification Result: exactly three alternatives, by descending
\* confidence
ThreeSorted(top3) ==
    /\ Len(top3) = 3
    /\ \A i \in 1..(Len(top3) - 1) : top3[i].confidence >= top3[i + 1].confidence

\* C22 (as claimed): a body of the ML service that is not a Classification
\* Result (fewer than three alternatives, or alternatives out of order) is
\* never handed to the recommendation step, stored or sent to the client.
C22_Original ==
    \A r \in Reqs :
        /\ (req[r].pc \in {"generating", "persisting"}) => ThreeSorted(req[r].prediction.top_3)
        /\ Responded(r) => ThreeSorted(req[r].body.prediction.top_3)
        /\ \A i \in 1..Len(db) : ThreeSorted(db[i].top_3_predictions)

(***************************************************************************)
(* The browser client                                                      *)
(***************************************************************************)
\* the page is displayed and React has nothing left to do
Settled == auth.phase = "settled"

EmailAna  == <<"a", "n", "a", "@", "x">>
EmailANA  == <<"A", "N", "A", "@", "x">>
EmailNoAt == <<"a", "n", "a", ".", "x">>
PwGood    == <<"s", "e", "c", "r", "e", "t">>

SameEmail(e1, e2) == toLowerCase(e1) = toLowerCase(e2)

\* the step is a submission of the form that reaches the call of register
CallsRegister ==
    /\ auth'.op = "handleSubmit"
    /\ auth'.form.mode = "register"
    /\ validate(auth'.form) = ""

\* C23: a call of register whose email is already stored, compared without
\* regard to case, is rejected with 'Email sudah terdaftar' and leaves the
\* user store, the saved session and the signed-in user as they were; and no
\* two stored users ever have the same email once case is ignored.
C23_DuplicateEmailRejected ==
    /\ [](\A i, j \in 1..Len(auth.users) :
              SameEmail(auth.users[i].email, auth.users[j].email) => i = j)
    /\ [][(/\ CallsRegister
           /\ \E i \in 1..Len(auth.users) :
                  SameEmail(auth.users[i].email, trim(auth'.form.email)))
          => /\ auth'.error = "Email sudah terdaftar"
             /\ auth'.users = auth.users
             /\ auth'.saved = auth.saved
             /\ auth'.user = auth.user
             /\ auth'.path = auth.path]_vars

\* ana@x is stored and a registration with ANA@x has just been refused
C23_Witness ==
    /\ auth.op = "handleSubmit"
    /\ auth.form.mode = "register"
    /\ auth.form.email = EmailANA
    /\ auth.error = "Email sudah terdaftar"
    /\ Len(auth.users) = 1
    /\ auth.users[1].email = EmailAna

\* C24: no registration creates a stored user whose email lacks '@' or whose
\* password is shorter than 6 characters: a form that fails either check is
\* answered with an error and stores nothing.
C24_RegistrationValidated ==
    /\ [](\A i \in 1..Len(auth.users) :
              /\ includes(auth.users[i].email, <<"@">>)
              /\ Len(auth.users[i].password) >= 6)
    /\ [][(/\ auth'.op = "handleSubmit"
           /\ auth'.form.mode = "register"
           /\ \/ ~includes(auth'.form.email, <<"@">>)
              \/ Len(auth'.form.password) < 6)
          => /\ auth'.error # ""
             /\ auth'.users = auth.users
             /\ auth'.saved = auth.saved
             /\ auth'.user = auth.user]_vars

\* one registration went through and one without '@' was refused after it
C24_Witness ==
    /\ auth.op = "handleSubmit"
    /\ auth.form.mode = "register"
    /\ auth.form.email = EmailNoAt
    /\ auth.form.password = PwGood
    /\ auth.error = "Email tidak valid"
    /\ Len(auth.users) = 1

ProtectedPaths == {"/detect", "/history"}
ProtectedPages == {"Home", "History"}

\* C25: with no signed-in user in AuthProvider's state, a render of /detect or
\* /history gives the redirect and never the protected page, and the redirect
\* leads to /login; a logout leaves no signed-in user and no saved session,
\* and the protected page it was called from is replaced by the next render.
C25_ProtectedRoutesGuarded ==
    /\ []((auth.shown \in ProtectedPages /\ ~isAuthenticated(auth.user))
              => auth.op = "logout" /\ auth.phase = "dirty")
    /\ []((Settled /\ ~isAuthenticated(auth.user))
              => auth.path \notin ProtectedPaths /\ auth.shown \notin ProtectedPages)
    /\ [][(/\ auth'.op \in {"mount", "render"}
           /\ auth'.path \in ProtectedPaths
           /\ ~isAuthenticated(auth'.user)) => auth'.shown = "Navigate"]_vars
    /\ [][(auth.shown = "Navigate" /\ auth'.op = "useEffect")
              => auth'.path = "/login"]_vars
    /\ [][auth'.op = "logout"
              => ~isAuthenticated(auth'.user) /\ auth'.saved = NoUser]_vars

\* a registered user has signed out on a protected page and has been taken to
\* the login page
C25_Witness ==
    /\ Len(auth.users) = 1
    /\ ~isAuthenticated(auth.user)
    /\ auth.saved = NoUser
    /\ auth.entry = "/login"
    /\ auth.shown = "Login"
    /\ auth.op = "render"
    /\ auth.form.mode = "register"

\* C30 as claimed: when the application is opened directly at /detect or
\* /history while a valid session is saved in localStorage, the page that is
\* on screen once React has settled, before the user does anything, is the
\* protected page of that URL.
C30_Original ==
    (/\ auth.entry \in ProtectedPaths
     /\ auth.saved # NoUser
     /\ ~auth.touched
     /\ Settled)
        => auth.shown = (IF auth.entry = "/detect" THEN "Home" ELSE "History")

(***************************************************************************)
(* The History page                                                        *)
(***************************************************************************)
\* the list without the records of a set
Minus(list, ids) == SelectSeq(list, LAMBDA h : h \notin ids)

\* C29 as claimed: two deletes of two different records were started before
\* either completed and both succeeded on the server; once both have
\* completed the list on screen is the loaded list minus the two records.
C29_Original ==
    (/\ Len(ui.calls) = 2
     /\ ui.calls[1].id # ui.calls[2].id
     /\ ui.calls[2].overlap = {ui.calls[1].id}
     /\ ui.calls[1].state = "deleted" /\ ui.calls[2].state = "deleted"
     /\ ~ui.reloaded)
        => /\ ui.history = Minus(ui.loaded, {ui.calls[1].id, ui.calls[2].id})
           /\ \A k \in 1..Len(ui.history) : ui.history[k] \notin ui.deleted

(***************************************************************************)
(* The POST /api/predict pipeline, continued                               *)
(***************************************************************************)
\* C26: within one request a generation request is issued only by the step
\* in which the classification call returned a prediction; the save starts
\* only by a step that has fixed the recommendation, after a successful
\* classification; the success response is sent only by the step in which
\* the save returns; so no two of the three calls are ever pending together.
C26_StrictlySequential ==
    /\ [](\A r \in Reqs :
            /\ req[r].pc = "classifying"
                  => req[r].mlCalls = 1 /\ req[r].genCalls = 0 /\ req[r].saveCalls = 0
            /\ req[r].pc = "generating"
                  => /\ req[r].mlCalls = 1 /\ req[r].genCalls = 1 /\ req[r].saveCalls = 0
                     /\ Classified(r) /\ req[r].mlErr = NoErr
            /\ req[r].pc = "persisting"
                  => /\ req[r].mlCalls = 1 /\ req[r].saveCalls = 1
                     /\ Classified(r) /\ req[r].recommendation # NoRec
            /\ req[r].genCalls <= req[r].mlCalls
            /\ req[r].saveCalls <= req[r].mlCalls)
    /\ [][\A r \in Reqs :
            /\ req'[r].genCalls > req[r].genCalls
                  => /\ req[r].pc = "classifying" /\ req'[r].pc = "generating"
                     /\ req'[r].prediction # NoPrediction /\ req'[r].mlErr = NoErr
                     /\ req'[r].responses = 0
            /\ req'[r].saveCalls > req[r].saveCalls
                  => /\ req[r].pc \in {"classifying", "generating"}
                     /\ req'[r].pc = "persisting"
                     /\ req'[r].prediction # NoPrediction
                     /\ req'[r].recommendation # NoRec
                     /\ req'[r].responses = 0
            /\ (req'[r].responses > req[r].responses /\ req'[r].status = 200)
                  => req[r].pc = "persisting" /\ req[r].saveCalls = 1]_vars

\* the save is pending, after one classification call and one generation
\* call, and nothing has been sent yet
C26_Witness ==
    \E r \in Reqs :
        /\ req[r].pc = "persisting"
        /\ req[r].mlCalls = 1 /\ req[r].genCalls = 1 /\ req[r].saveCalls = 1
        /\ req[r].reply.kind = "text"
        /\ req[r].responses = 0

\* the object the parser read in the text a backend answered with
ParsedOf(reply) ==
    LET m == jsonMatch(cleanResponse(reply.toks))
        j == JSONparse(m.span)
    IN  [found |-> m.found, ok |-> m.found /\ j.ok, obj |-> j.obj]

AllPresent(obj) ==
    /\ obj.recipes.t # "absent"
    /\ obj.nutrition.t # "absent"
    /\ obj.storageTips.t # "absent"

\* C27: when the generated text holds no JSON object, or JSON that does not
\* parse, or an object without one of recipes, nutrition, storageTips, the
\* handler goes on with the Catalog entry (or the degraded fallback) for the
\* label; a recommendation other than that is the three fields of an object
\* that has all of them, never a part of the payload completed from elsewhere.
C27_AllFieldsOrFallback ==
    \A r \in Reqs :
        (req[r].pc = "persisting" /\ req[r].reply.kind = "text") =>
            LET p == ParsedOf(req[r].reply)
                rec == req[r].recommendation
            IN  /\ (~p.found \/ ~p.ok \/ ~AllPresent(p.obj))
                      => rec = CatalogOrFallback(Label(r))
                /\ rec # CatalogOrFallback(Label(r))
                      => /\ p.ok /\ AllPresent(p.obj)
                         /\ rec.nutrition = p.obj.nutrition
                         /\ rec.storageTips = p.obj.storageTips.v
                         /\ rec.recipes = normalizeRecipes(p.obj.recipes)

\* the backend answered an object without storageTips for a Carrot
C27_Witness ==
    \E r \in Reqs :
        /\ req[r].pc = "persisting"
        /\ req[r].reply.kind = "text"
        /\ req[r].reply.toks = <<"noTips">>
        /\ Label(r) = "Carrot"
        /\ req[r].recommendation = defaults["Carrot"]

\* C28: a request has no response until its path ends and exactly one from
\* then on, whichever way it ends; an error handed to next(err) is answered
\* by errorHandler, after which no other error middleware runs.
C28_ExactlyOneResponse ==
    \A r \in Reqs :
        /\ req[r].responses <= 1
        /\ Done(r) <=> req[r].responses = 1
        /\ (Done(r) /\ req[r].err # NoErr) =>
              /\ errorHandler(req[r].err, env.production).responded
              /\ next(req[r].err, env.production).by = "errorHandler"
              /\ req[r].status = errorHandler(req[r].err, env.production).status

\* the save was refused and the request was answered once, by errorHandler
C28_Witness ==
    \E r \in Reqs :
        /\ Done(r)
        /\ req[r].saveCalls = 1
        /\ req[r].err \in DbErrors
        /\ req[r].responses = 1
        /\ req[r].status # 200

====
